---------------------------- MODULE Spec2Model ----------------------------
(***************************************************************************)
(* Model of the market-abm simulator: the ledger (BaseAgent.execute_trade),*)
(* the strategies (decide_action), the matcher (MarketEnvironment.         *)
(* collect_orders / match_orders), price formation (update_price), the     *)
(* fundamental-value process and the tick loop (step, SimulationEngine.run)*)
(*                                                                         *)
(* Numbers.  The program computes with Python floats; the model computes   *)
(* the same expressions exactly, on a fixed-point grid:                    *)
(*   - a price is an integer number of price units of 0.01, so the floor   *)
(*     max(0.01, .) of the code is max(1, .);                              *)
(*   - an execution price (buy_price + sell_price) / 2 is kept doubled     *)
(*     (buy_price + sell_price, in half price units);                      *)
(*   - a cost rate is an integer number of 1/RateDen, 0.001 being 10;      *)
(*   - cash is an integer number of cash units, CashScale = 2 * RateDen    *)
(*     cash units making one price unit, so that quantity *                *)
(*     execution_price * (1 +- rate) is an integer.                        *)
(* A continuous random draw (np.random.normal, np.random.uniform) is a     *)
(* choice among the draws that land on the grid.                           *)
(***************************************************************************)
EXTENDS Integers, Sequences, FiniteSets, TLC

\* ---------------------------------------------------------------- units
RateDen == 10 * 1000
CashScale == 2 * RateDen

\* ------------------------------------------------------ program constants
\* transaction_cost_rate=0.001, the default of execute_trade
DefaultCostRate == 10
\* adjustment_factor = 1.01, as AdjNum / AdjDen
AdjNum == 101
AdjDen == 100
\* the floor 0.01 of max(0.01, .) in update_fundamental_value and update_price
MinPrice == 1
\* max_position=100, the default of MarketEnvironment.__init__
DefaultMaxPosition == 100

\* ------------------------------------------------------------------ bounds
NumAgents == 3
\* quantities of the orders and calls enumerated: 1..MaxQty
MaxQty == 3
\* direct calls of execute_trade enumerated in SpecTrade
MaxCalls == 2

Agents == 1..NumAgents

\* ------------------------------------------------------------------- state
VARIABLES
    \* BaseAgent fields, one function over Agents each
    kind, cash, position, wealth_history, position_history, trade_history,
    \* MarketEnvironment.agents: the ids of the agents added, in add_agent order
    agents,
    \* MarketEnvironment fields
    current_price, fundamental_value, price_history, fundamental_history,
    trading_volume, max_position, buy_orders, sell_orders, stats,
    \* collect_orders: the intents decide_action has returned in this tick,
    \* in the order of self.agents (the loop is at agent Len(intents) + 1)
    intents,
    \* match_orders locals: the sorted lists, total_volume, transactions,
    \* total_shares_before, whether the conservation WARNING was printed, and
    \* how many times the body of the while loop has been entered
    m_buy_orders, m_sell_orders, total_volume, transactions,
    total_shares_before, warned, iterations,
    \* step()'s locals and SimulationEngine fields
    summary, sim_steps, step, data,
    \* control: where the program is, and the last direct call with what it returned
    pc, call

agentVars == <<cash, position, trade_history>>
histVars == <<wealth_history, position_history>>
marketVars == <<current_price, fundamental_value, price_history,
                fundamental_history, trading_volume, max_position,
                buy_orders, sell_orders, stats>>
matchVars == <<m_buy_orders, m_sell_orders, total_volume, transactions,
               total_shares_before, warned, iterations>>
engineVars == <<summary, sim_steps, step, data>>
vars == <<kind, agents, agentVars, histVars, marketVars, intents, matchVars, engineVars,
          pc, call>>

\* ----------------------------------------------------------------- helpers
Max(a, b) == IF a >= b THEN a ELSE b
Min(a, b) == IF a <= b THEN a ELSE b
Abs(a) == IF a >= 0 THEN a ELSE -a

RECURSIVE SumOver(_, _)
\* sum(f[a] for a in S)
SumOver(f, S) ==
    IF S = {} THEN 0
    ELSE LET a == CHOOSE x \in S : TRUE IN f[a] + SumOver(f, S \ {a})

\* sum(agent.position for agent in self.agents)
TotalShares(pos) == SumOver(pos, Agents)

\* ------------------------------------------------- BaseAgent.execute_trade
\* The ledger state of all agents, as the three fields execute_trade touches.
Ledger(c, p, th) == [cash |-> c, position |-> p, trade_history |-> th]

\* trade_value + transaction_cost of a buy, in cash units
TotalCost(quantity, price2, rate) == quantity * price2 * (RateDen + rate)

\* Proceeds with the cost added instead of deducted
NetProceedsPlusCost(quantity, price2, rate) == quantity * price2 * (RateDen + rate)

\* trade_value - transaction_cost of a sell, in cash units
NetProceeds(quantity, price2, rate) == quantity * price2 * (RateDen - rate)

\* A cash check that forgets the transaction cost
BuyAllowedNoCost(l, a, quantity, price2, rate) ==
    l.cash[a] >= quantity * price2 * RateDen

\* if self.cash >= total_cost
BuyAllowed(l, a, quantity, price2, rate) ==
    l.cash[a] >= TotalCost(quantity, price2, rate)

\* A share check that only asks for some shares
SellAllowedAnyShares(l, a, quantity) == l.position[a] > 0

\* if self.position >= quantity
SellAllowed(l, a, quantity) == l.position[a] >= quantity

\* An execute_trade whose trade log is one list shared by all agents (a
\* class attribute instead of an instance attribute)
execute_trade_shared_log(l, a, action_type, quantity, price2, rate) ==
    LET entry == <<action_type, quantity, price2>>
        logged == [b \in DOMAIN l.trade_history |-> Append(l.trade_history[b], entry)]
        same == [ok |-> FALSE, cash |-> l.cash, position |-> l.position,
                 trade_history |-> l.trade_history]
    IN IF action_type = "buy" /\ l.cash[a] >= TotalCost(quantity, price2, rate)
       THEN [ok |-> TRUE,
             cash |-> [l.cash EXCEPT ![a] = @ - TotalCost(quantity, price2, rate)],
             position |-> [l.position EXCEPT ![a] = @ + quantity],
             trade_history |-> logged]
       ELSE IF action_type = "sell" /\ l.position[a] >= quantity
       THEN [ok |-> TRUE,
             cash |-> [l.cash EXCEPT ![a] = @ + NetProceeds(quantity, price2, rate)],
             position |-> [l.position EXCEPT ![a] = @ - quantity],
             trade_history |-> logged]
       ELSE same

\* execute_trade on agent a: the ledger after the call and the value returned
execute_trade(l, a, action_type, quantity, price2, rate) ==
    IF action_type = "buy"
    THEN IF BuyAllowed(l, a, quantity, price2, rate)
         THEN [ok |-> TRUE,
               cash |-> [l.cash EXCEPT ![a] = @ - TotalCost(quantity, price2, rate)],
               position |-> [l.position EXCEPT ![a] = @ + quantity],
               trade_history |-> [l.trade_history EXCEPT
                                    ![a] = Append(@, <<action_type, quantity, price2>>)]]
         ELSE [ok |-> FALSE, cash |-> l.cash, position |-> l.position,
               trade_history |-> l.trade_history]
    ELSE IF action_type = "sell"
    THEN IF SellAllowed(l, a, quantity)
         THEN [ok |-> TRUE,
               cash |-> [l.cash EXCEPT ![a] = @ + NetProceeds(quantity, price2, rate)],
               position |-> [l.position EXCEPT ![a] = @ - quantity],
               trade_history |-> [l.trade_history EXCEPT
                                    ![a] = Append(@, <<action_type, quantity, price2>>)]]
         ELSE [ok |-> FALSE, cash |-> l.cash, position |-> l.position,
               trade_history |-> l.trade_history]
    ELSE [ok |-> FALSE, cash |-> l.cash, position |-> l.position,
          trade_history |-> l.trade_history]


\* ------------------------------------------------------------- strategies
\* An order intent (action_type, quantity, price); price 0 stands for None.
Hold == <<"hold", 0, 0>>

\* int(k * c / d) for a cash amount c (in cash units) and a price-unit
\* divisor d > 0, k >= 0: truncation toward zero, as Python's int().  The
\* product is split at CashScale so that no intermediate value leaves the
\* checker's 32-bit integers: floor(floor(x) / d) = floor(x / d) for integer d.
CashMulDiv(k, c, d) ==
    LET n == Abs(c)
        q == (k * (n \div CashScale) + (k * (n % CashScale)) \div CashScale) \div d
    IN IF c >= 0 THEN q ELSE -q

\* reaction_speed=0.1, the default of Fundamentalist.__init__, as a fraction
ReactionNum == 1
ReactionDen == 10

\* A threshold test that also holds at the boundary
MispricingTooSmallInclusive(mispricing, cp) == 1000 * Abs(mispricing) <= 2 * cp

\* abs(mispricing) < 0.002 * current_price
MispricingTooSmall(mispricing, cp) == 1000 * Abs(mispricing) < 2 * cp

\* current_price * (1 + np.random.uniform(0, 0.002)): the draw lies in
\* [0, 0.002), so the price lies in [cp, 1.002 cp); `far` picks the largest
\* grid price of that range, otherwise the smallest.
BuyLimit(cp, far) == IF far THEN Max(cp, (1002 * cp - 1) \div 1000) ELSE cp

\* current_price * (1 - np.random.uniform(0, 0.002)): in (0.998 cp, cp]
SellLimit(cp, far) == IF far THEN Min(cp, (998 * cp) \div 1000 + 1) ELSE cp

\* min(int(self.cash / current_price * 0.7), market.max_position - self.position)
MaxNewPosition(c, p, cp, maxpos) == Min(CashMulDiv(7, c, 10 * cp), maxpos - p)

\* A quantity without the floor of one share
AtLeastOneShareNot(quantity) == quantity

\* max(1, .): "Ensure at least 1 share"
AtLeastOneShare(quantity) == Max(1, quantity)

\* Fundamentalist.decide_action for an agent with cash c and position p;
\* noise is the draw of estimate_fundamental_value, far the uniform draw.
FundamentalistDecide(c, p, cp, fv, maxpos, noise, far) ==
    LET estimated_value == fv + noise
        mispricing == estimated_value - cp
        magnitude == CashMulDiv(ReactionNum * 3 * Abs(mispricing), c, ReactionDen * cp)
        position_change == IF mispricing >= 0 THEN magnitude ELSE -magnitude
        max_new_position == MaxNewPosition(c, p, cp, maxpos)
    IN IF MispricingTooSmall(mispricing, cp) THEN Hold
       ELSE IF mispricing > 0
       THEN LET quantity == AtLeastOneShare(Min(position_change, max_new_position))
            IN IF c < quantity * cp * CashScale THEN Hold
               ELSE <<"buy", quantity, BuyLimit(cp, far)>>
       ELSE IF p > 0
       THEN <<"sell", AtLeastOneShare(Min(Abs(position_change), p)), SellLimit(cp, far)>>
       ELSE Hold

\* memory=2, passed to Chartist.__init__: the shortest window analyze_trend
\* works on, and the one for which np.std is rational (|a - b| / 2)
ChartistMemory == 2
\* sensitivity=0.1 and confidence=0.7, the defaults of Chartist.__init__, in 1/100
ChartistSensitivity == 10
ChartistConfidence == 70

\* Euclid's algorithm, as a function so that each step works on values
gcd[p \in Nat \X Nat] == IF p[2] = 0 THEN p[1] ELSE gcd[<<p[2], p[1] % p[2]>>]
GCD(a, b) == gcd[<<a, b>>]

\* The fraction num / den (den > 0) in lowest terms
Fraction(num, den) ==
    LET g == GCD(Abs(num), den)
    IN [num |-> num \div g, den |-> den \div g]

\* A trend analysis that, short of data, takes the price floor for the
\* missing earlier price instead of returning 0
analyze_trend_padded(ph) ==
    LET a == IF Len(ph) < ChartistMemory THEN MinPrice ELSE ph[Len(ph) - 1]
        b == ph[Len(ph)]
        shape == Fraction((b - a) * Min(a, b), a * (a + b))
        weight == Fraction(3 * ChartistConfidence * ChartistSensitivity, 100 * 100)
        signal == Fraction(weight.num * shape.num, weight.den * shape.den)
    IN IF signal.num > signal.den THEN [num |-> 1, den |-> 1]
       ELSE IF -signal.num > signal.den THEN [num |-> -1, den |-> 1]
       ELSE signal

\* Chartist.analyze_trend for memory = 2, as an exact fraction.  With
\* recent_prices = [a, b]: short_window = long_window = 2, so ma_signal = 0;
\* momentum_window = 2, so momentum = b / a - 1; volatility = std / mean =
\* (|a - b| / 2) / ((a + b) / 2); and trend_signal = 1.5 * momentum *
\* (1 - volatility) = 3 * (b - a) * min(a, b) / (a * (a + b)), then times
\* confidence * sensitivity, then clipped to [-1, 1].
analyze_trend(ph) ==
    IF Len(ph) < ChartistMemory THEN [num |-> 0, den |-> 1]
    ELSE LET a == ph[Len(ph) - 1]
             b == ph[Len(ph)]
             shape == Fraction((b - a) * Min(a, b), a * (a + b))
             weight == Fraction(3 * ChartistConfidence * ChartistSensitivity, 100 * 100)
             signal == Fraction(weight.num * shape.num, weight.den * shape.den)
         IN IF signal.num > signal.den THEN [num |-> 1, den |-> 1]
            ELSE IF -signal.num > signal.den THEN [num |-> -1, den |-> 1]
            ELSE signal

\* Chartist.decide_action for an agent with cash c and position p on the
\* price history ph; far is the uniform draw of the limit price.
ChartistDecide(c, p, cp, ph, maxpos, far) ==
    LET trend == analyze_trend(ph)
        \* int(self.cash * abs(trend) * 3 / current_price), the division by
        \* trend.den * cp done in two floors: floor(floor(x / d) / cp)
        position_change == CashMulDiv(3 * Abs(trend.num), c, trend.den) \div cp
        max_new_position == MaxNewPosition(c, p, cp, maxpos)
    IN IF 100 * Abs(trend.num) < 2 * trend.den THEN Hold
       ELSE IF trend.num > 0
       THEN LET quantity == AtLeastOneShare(Min(position_change, max_new_position))
            IN IF c < quantity * cp * CashScale THEN Hold
               ELSE <<"buy", quantity, BuyLimit(cp, far)>>
       ELSE IF p > 0
       THEN <<"sell", AtLeastOneShare(Min(Abs(position_change), p)), SellLimit(cp, far)>>
       ELSE Hold

\* price_range=0.01, the default of NoiseTrader.__init__, in 1/100
PriceRangePct == 1

\* current_price * (1 + np.random.uniform(-price_range, price_range)): the
\* price lies in [(1 - r) cp, (1 + r) cp); dev = -1, 0, 1 picks the smallest
\* grid price of the range, cp itself, or the largest.
NoisePrice(cp, dev) ==
    IF dev < 0 THEN Min(cp, ((100 - PriceRangePct) * cp + 99) \div 100)
    ELSE IF dev > 0 THEN Max(cp, ((100 + PriceRangePct) * cp - 1) \div 100)
    ELSE cp

\* A noise trader that sells the quantity drawn, whatever it holds
NoiseTraderDecideUncapped(c, p, cp, trade, action, quantity, dev) ==
    LET price == NoisePrice(cp, dev)
        max_buy == CashMulDiv(9, c, 10 * price)
    IN IF ~trade THEN Hold
       ELSE IF action = "buy"
       THEN IF max_buy < 1 THEN Hold ELSE <<"buy", Min(quantity, max_buy), price>>
       ELSE IF p < 1 THEN Hold ELSE <<"sell", quantity, price>>

\* A noise trader that buys the quantity drawn whenever it can afford a share
NoiseTraderDecideBuyUncapped(c, p, cp, trade, action, quantity, dev) ==
    LET price == NoisePrice(cp, dev)
        max_buy == CashMulDiv(9, c, 10 * price)
    IN IF ~trade THEN Hold
       ELSE IF action = "buy"
       THEN IF max_buy < 1 THEN Hold ELSE <<"buy", quantity, price>>
       ELSE IF p < 1 THEN Hold ELSE <<"sell", Min(quantity, p), price>>

\* NoiseTrader.decide_action: trade is np.random.random() <= trade_probability,
\* action, quantity and dev are the three later draws.
NoiseTraderDecide(c, p, cp, trade, action, quantity, dev) ==
    LET price == NoisePrice(cp, dev)
        max_buy == CashMulDiv(9, c, 10 * price)
    IN IF ~trade THEN Hold
       ELSE IF action = "buy"
       THEN IF max_buy < 1 THEN Hold ELSE <<"buy", Min(quantity, max_buy), price>>
       ELSE IF p < 1 THEN Hold ELSE <<"sell", Min(quantity, p), price>>

\* --------------------------------------------------------- construction
\* One currency unit in price units, and the starting price and value 10.00
PriceScale == 100 * MinPrice
InitialPrice == 10 * PriceScale

\* MarketEnvironment.__init__
InitMarket(initial_price, initial_fundamental_value, maxpos) ==
    /\ current_price = initial_price
    /\ fundamental_value = initial_fundamental_value
    /\ price_history = <<initial_price>>
    /\ fundamental_history = <<initial_fundamental_value>>
    /\ trading_volume = <<0>>
    /\ max_position = maxpos
    /\ buy_orders = <<>>
    /\ sell_orders = <<>>
    /\ stats = [daily_returns |-> <<>>, total_volume |-> 0, transactions |-> <<>>]

\* BaseAgent.__init__ and market.add_agent for every agent: c and p map
\* each agent to its initial_cash and initial_position
InitAgents(kinds, c, p) ==
    /\ kind = kinds
    /\ agents = [i \in 1..NumAgents |-> i]
    /\ cash = c
    /\ position = p
    /\ wealth_history = [a \in Agents |-> <<c[a]>>]
    /\ position_history = [a \in Agents |-> <<p[a]>>]
    /\ trade_history = [a \in Agents |-> <<>>]

\* Nothing of match_orders, step or run has run yet.
InitLocals(steps) ==
    /\ intents = <<>>
    /\ m_buy_orders = <<>>
    /\ m_sell_orders = <<>>
    /\ total_volume = 0
    /\ transactions = <<>>
    /\ total_shares_before = 0
    /\ warned = FALSE
    /\ iterations = 0
    /\ summary = <<>>
    /\ sim_steps = steps
    /\ step = 0
    /\ data = <<>>
    /\ call = <<>>

\* ------------------------------------------------------- direct ledger calls
\* The rates a caller may pass: the default, and config.TRANSACTION_COST = 0.0003
ConfigCostRate == 3
RateSet == {DefaultCostRate, ConfigCostRate}
\* The doubled execution price of the direct calls: 1.005
CallPrice2Set == {201 * MinPrice}
ActionSet == {"buy", "sell", "hold"}

\* agent.execute_trade(action_type, quantity, execution_price, rate), called
\* directly; `call` keeps the arguments and the value returned.
ExecuteTrade(a, action_type, quantity, price2, rate) ==
    /\ pc = "trade"
    /\ Len(call) < MaxCalls
    /\ LET r == execute_trade(Ledger(cash, position, trade_history),
                              a, action_type, quantity, price2, rate)
       IN /\ cash' = r.cash
          /\ position' = r.position
          /\ trade_history' = r.trade_history
          /\ call' = Append(call, [agent |-> a, action_type |-> action_type,
                                   quantity |-> quantity, price2 |-> price2,
                                   rate |-> rate, ok |-> r.ok])
    /\ UNCHANGED <<kind, agents, histVars, marketVars, intents, matchVars, engineVars, pc>>

\* Agents with odd ids start with the cash of about two shares at 1.00 and
\* three shares, the others with the cash of six and one share.
TradeCash == [a \in Agents |-> IF a % 2 = 1 THEN 2 * PriceScale * CashScale + 5000
                                ELSE 6 * PriceScale * CashScale]
TradePosition == [a \in Agents |-> IF a % 2 = 1 THEN 3 ELSE 1]

InitTrade ==
    /\ InitMarket(PriceScale, PriceScale, DefaultMaxPosition)
    /\ InitAgents([a \in Agents |-> "BaseAgent"], TradeCash, TradePosition)
    /\ InitLocals(0)
    /\ pc = "trade"

NextTrade ==
    \E a \in Agents, action_type \in ActionSet, quantity \in 1..MaxQty,
       price2 \in CallPrice2Set, rate \in RateSet :
        ExecuteTrade(a, action_type, quantity, price2, rate)

SpecTrade == InitTrade /\ [][NextTrade]_vars

\* ---------------------------------- MarketEnvironment.collect_orders
\* What the strategy of an agent draws in one decide_action call.  A
\* Fundamentalist draws (noise, far), a NoiseTrader (trade, action,
\* quantity, dev); an agent of any other BaseAgent subclass returns an
\* arbitrary intent, which the draw is.
EstNoiseSet == {-3 * MinPrice, 0}
FundamentalistDraws == [noise : EstNoiseSet, far : BOOLEAN]
ChartistDraws == [far : BOOLEAN]
NoiseTraderDraws ==
    {[trade |-> FALSE, action |-> "buy", quantity |-> 1, dev |-> 0]}
    \cup [trade : {TRUE}, action : {"buy", "sell"}, quantity : 1..MaxQty,
          dev : {-1, 0, 1}]
\* Limit prices of the arbitrary intents: 0.99, 1.00 and 1.01 (1.01 * 0.99
\* is just below 1.00, and 1.01 * 1.00 is 1.01)
IntentPriceSet == {99 * MinPrice, PriceScale, 101 * MinPrice}
\* and, at 1.00, a buy and a sell of no share
IntentSet == {Hold} \cup ({"buy", "sell"} \X (1..MaxQty) \X IntentPriceSet)
                    \cup ({"buy", "sell"} \X {0} \X {PriceScale})

DrawsOf(k) ==
    IF k = "Fundamentalist" THEN FundamentalistDraws
    ELSE IF k = "Chartist" THEN ChartistDraws
    ELSE IF k = "NoiseTrader" THEN NoiseTraderDraws
    ELSE IntentSet

\* agent.decide_action(self) for agent a with draw d
decide_action(a, d) ==
    IF kind[a] = "Fundamentalist"
    THEN FundamentalistDecide(cash[a], position[a], current_price,
                              fundamental_value, max_position, d.noise, d.far)
    ELSE IF kind[a] = "Chartist"
    THEN ChartistDecide(cash[a], position[a], current_price, price_history,
                        max_position, d.far)
    ELSE IF kind[a] = "NoiseTrader"
    THEN NoiseTraderDecide(cash[a], position[a], current_price,
                           d.trade, d.action, d.quantity, d.dev)
    ELSE d

\* A test of the action alone
IsBuyOrderAnyQuantity(intent) == intent[1] = "buy"

\* if action == 'buy' and quantity > 0
IsBuyOrder(intent) == intent[1] = "buy" /\ intent[2] > 0
\* A test of the quantity alone: a buy order is listed as a sell too
IsSellOrderAnyAction(intent) == intent[2] > 0

\* elif action == 'sell' and quantity > 0
IsSellOrder(intent) == intent[1] = "sell" /\ intent[2] > 0

\* One iteration of the loop `for agent in self.agents` of collect_orders;
\* the first one starts from the lists collect_orders has just emptied.
CollectOrder ==
    /\ pc = "collect"
    /\ LET a == IF Len(intents) >= NumAgents THEN 1 ELSE Len(intents) + 1
           buys == IF a = 1 THEN <<>> ELSE buy_orders
           sells == IF a = 1 THEN <<>> ELSE sell_orders
       IN \E d \in DrawsOf(kind[a]) :
            LET intent == decide_action(a, d)
            IN /\ buy_orders' = IF IsBuyOrder(intent)
                                THEN Append(buys, <<a, intent[2], intent[3]>>)
                                ELSE buys
               /\ sell_orders' = IF IsSellOrder(intent)
                                 THEN Append(sells, <<a, intent[2], intent[3]>>)
                                 ELSE sells
               /\ intents' = IF a = 1 THEN <<intent>> ELSE Append(intents, intent)
               /\ pc' = IF a = NumAgents THEN "match" ELSE "collect"
    /\ UNCHANGED <<kind, agents, agentVars, histVars, current_price, fundamental_value,
                   price_history, fundamental_history, trading_volume,
                   max_position, stats, matchVars, engineVars, call>>

\* ------------------------------------- MarketEnvironment.match_orders
\* Whether an order of price p already in the sorted list stays before a
\* later order of price x.  A sort that puts a later order before the
\* earlier ones of its price:
KeepsStrict(p, x, reverse) == IF reverse THEN p > x ELSE p < x

\* p >= x in the descending list, p <= x in the ascending one
Keeps(p, x, reverse) == IF reverse THEN p >= x ELSE p <= x

RECURSIVE CountWhile(_, _, _)
\* The length of the longest prefix of seq whose orders stay before price x
CountWhile(seq, x, reverse) ==
    IF seq = <<>> \/ ~Keeps(Head(seq)[3], x, reverse) THEN 0
    ELSE 1 + CountWhile(Tail(seq), x, reverse)

InsertAfter(seq, o, reverse) ==
    LET k == CountWhile(seq, o[3], reverse)
    IN SubSeq(seq, 1, k) \o <<o>> \o SubSeq(seq, k + 1, Len(seq))

RECURSIVE StableSort(_, _)
\* sorted(): stable, so orders of equal price keep their collection order
StableSort(seq, reverse) ==
    IF seq = <<>> THEN <<>>
    ELSE InsertAfter(StableSort(SubSeq(seq, 1, Len(seq) - 1), reverse),
                     seq[Len(seq)], reverse)

\* The buy orders left in collection order
SortBuyOrdersNot(seq) == seq

\* sorted(self.buy_orders, key=lambda x: x[2], reverse=True)
SortBuyOrders(seq) == StableSort(seq, TRUE)
\* sorted(self.sell_orders, key=lambda x: x[2])
SortSellOrders(seq) == StableSort(seq, FALSE)

\* A matcher that keeps what the tick before left on its lists
MatchBeginKeepsLeftovers ==
    /\ pc = "match"
    /\ m_buy_orders' = SortBuyOrders(m_buy_orders \o buy_orders)
    /\ m_sell_orders' = SortSellOrders(m_sell_orders \o sell_orders)
    /\ total_shares_before' = TotalShares(position)
    /\ total_volume' = 0
    /\ transactions' = <<>>
    /\ warned' = FALSE
    /\ iterations' = 0
    /\ pc' = "loop"
    /\ UNCHANGED <<kind, agents, agentVars, histVars, marketVars, intents, engineVars, call>>

\* match_orders up to the loop: the sorted copies and the share count before
MatchBegin ==
    /\ pc = "match"
    /\ m_buy_orders' = SortBuyOrders(buy_orders)
    /\ m_sell_orders' = SortSellOrders(sell_orders)
    /\ total_shares_before' = TotalShares(position)
    /\ total_volume' = 0
    /\ transactions' = <<>>
    /\ warned' = FALSE
    /\ iterations' = 0
    /\ pc' = "loop"
    /\ UNCHANGED <<kind, agents, agentVars, histVars, marketVars, intents, engineVars, call>>

\* The comparison without the tolerance
CrossesUnadjusted(buy_price, sell_price) == buy_price >= sell_price

\* A tolerance of 10% instead of 1%
CrossesWide(buy_price, sell_price) == buy_price * 110 >= sell_price * 100

\* adjusted_buy_price >= sell_price, with adjusted_buy_price = buy_price * 1.01
Crosses(buy_price, sell_price) == buy_price * AdjNum >= sell_price * AdjDen

\* Execution at the ask instead of the midpoint
ExecutionPrice2AtAsk(buy_price, sell_price) == 2 * sell_price

\* execution_price = (buy_price + sell_price) / 2, doubled
ExecutionPrice2(buy_price, sell_price) == buy_price + sell_price

\* matched_quantity = min(buy_quantity, sell_quantity)
MatchedQuantity(buy_quantity, sell_quantity) == Min(buy_quantity, sell_quantity)

\* A fill that always pops the head, dropping the residual
AfterFillPop(orders, matched) == Tail(orders)

\* The head order after a fill of matched: reduced in place, or popped
AfterFill(orders, matched) ==
    LET o == Head(orders)
    IN IF o[2] > matched
       THEN <<<<o[1], o[2] - matched, o[3]>>>> \o Tail(orders)
       ELSE Tail(orders)

\* A failure that leaves both lists as they are
AfterFailureKeep(orders, success) == orders

\* A failure that drops the heads of both sides, whichever call failed
AfterFailureDropAlways(orders, success) == Tail(orders)

\* The head order after its executor call: popped if the call failed
AfterFailure(orders, success) == IF success THEN orders ELSE Tail(orders)

\* The two executor calls of one iteration, the buy first: the ledger
\* after both, with what each returned
ExecutePair ==
    LET b == Head(m_buy_orders)
        s == Head(m_sell_orders)
        q == MatchedQuantity(b[2], s[2])
        price2 == ExecutionPrice2(b[3], s[3])
        r1 == execute_trade(Ledger(cash, position, trade_history),
                            b[1], "buy", q, price2, DefaultCostRate)
        r2 == execute_trade(Ledger(r1.cash, r1.position, r1.trade_history),
                            s[1], "sell", q, price2, DefaultCostRate)
    IN [buy_success |-> r1.ok, sell_success |-> r2.ok, cash |-> r2.cash,
        position |-> r2.position, trade_history |-> r2.trade_history,
        quantity |-> q, price2 |-> price2, buyer |-> b[1], seller |-> s[1]]

InLoop == pc = "loop" /\ m_buy_orders # <<>> /\ m_sell_orders # <<>>

\* An iteration whose head orders cross and whose executor calls both succeed
MatchTrade ==
    /\ InLoop
    /\ Crosses(Head(m_buy_orders)[3], Head(m_sell_orders)[3])
    /\ LET r == ExecutePair
       IN /\ r.buy_success /\ r.sell_success
          /\ cash' = r.cash
          /\ position' = r.position
          /\ trade_history' = r.trade_history
          /\ total_volume' = total_volume + r.quantity
          /\ transactions' = Append(transactions,
                                    <<r.buyer, r.seller, r.quantity, r.price2>>)
          /\ m_buy_orders' = AfterFill(m_buy_orders, r.quantity)
          /\ m_sell_orders' = AfterFill(m_sell_orders, r.quantity)
    /\ iterations' = iterations + 1
    /\ UNCHANGED <<kind, agents, histVars, marketVars, intents, total_shares_before,
                   warned, engineVars, pc, call>>

\* An iteration whose head orders cross and one of whose executor calls fails
MatchFailed ==
    /\ InLoop
    /\ Crosses(Head(m_buy_orders)[3], Head(m_sell_orders)[3])
    /\ LET r == ExecutePair
       IN /\ ~(r.buy_success /\ r.sell_success)
          /\ cash' = r.cash
          /\ position' = r.position
          /\ trade_history' = r.trade_history
          /\ m_buy_orders' = AfterFailure(m_buy_orders, r.buy_success)
          /\ m_sell_orders' = AfterFailure(m_sell_orders, r.sell_success)
    /\ iterations' = iterations + 1
    /\ UNCHANGED <<kind, agents, histVars, marketVars, intents, total_volume,
                   transactions, total_shares_before, warned, engineVars, pc,
                   call>>

\* A check that only notices shares appearing
ConservationViolatedOnGain(before, after) == after > before

\* if total_shares_before != total_shares_after: print("WARNING: ...")
ConservationViolated(before, after) == before # after

\* An end of match_orders that sets the cumulative volume to the tick's
MatchEndOverwritesVolume ==
    /\ pc = "loop"
    /\ ~(InLoop /\ Crosses(Head(m_buy_orders)[3], Head(m_sell_orders)[3]))
    /\ iterations' = IF InLoop THEN iterations + 1 ELSE iterations
    /\ warned' = ConservationViolated(total_shares_before, TotalShares(position))
    /\ stats' = [stats EXCEPT !.total_volume = total_volume,
                              !.transactions = @ \o transactions]
    /\ trading_volume' = Append(trading_volume, total_volume)
    /\ pc' = "price"
    /\ UNCHANGED <<kind, agents, agentVars, histVars, current_price, fundamental_value,
                   price_history, fundamental_history, max_position, buy_orders,
                   sell_orders, intents, m_buy_orders, m_sell_orders,
                   total_volume, transactions, total_shares_before, engineVars,
                   call>>

\* The loop's end (a list is empty, or the heads do not cross: break) and the
\* rest of match_orders: the share count after, the WARNING, the statistics;
\* then step() appends the volume returned.
MatchEnd ==
    /\ pc = "loop"
    /\ ~(InLoop /\ Crosses(Head(m_buy_orders)[3], Head(m_sell_orders)[3]))
    /\ iterations' = IF InLoop THEN iterations + 1 ELSE iterations
    /\ warned' = ConservationViolated(total_shares_before, TotalShares(position))
    /\ stats' = [stats EXCEPT !.total_volume = @ + total_volume,
                              !.transactions = @ \o transactions]
    /\ trading_volume' = Append(trading_volume, total_volume)
    /\ pc' = "price"
    /\ UNCHANGED <<kind, agents, agentVars, histVars, current_price, fundamental_value,
                   price_history, fundamental_history, max_position, buy_orders,
                   sell_orders, intents, m_buy_orders, m_sell_orders,
                   total_volume, transactions, total_shares_before, engineVars,
                   call>>

\* ------------------------------ MarketEnvironment.update_fundamental_value
\* Draws of np.random.normal: the shock, the random walk and the final noise
BigDraw == 2 * InitialPrice
ShockSet == {-BigDraw, 0, 3 * MinPrice}
WalkSet == {-BigDraw, InitialPrice \div 2}
NoiseSet == {-BigDraw, 0}

\* fundamental_value += shock; *= (1 + trend) with trend = 0.0; max(0.01, .)
FundamentalAfter(fv, shock) == Max(MinPrice, fv + shock)

\* A loop over range(sim_steps - 1)
RangeExhaustedEarly(i, n) == i >= n - 1

\* for step in range(self.sim_steps): no index is left once i reaches n
RangeExhausted(i, n) == i >= n

\* A step() that goes to the collection without updating the value first
UpdateFundamentalValueNotFirst ==
    /\ pc = "run"
    /\ ~RangeExhausted(step, sim_steps)
    /\ pc' = "collect"
    /\ UNCHANGED <<kind, agents, agentVars, histVars, marketVars, intents,
                   matchVars, engineVars, call>>

\* run()'s loop enters step(), whose first call is update_fundamental_value().
\* np.random.normal(0, scale) raises ValueError for a negative scale and
\* returns 0 for the scale 0, the scale being 0.2 * fundamental_value.
UpdateFundamentalValue ==
    /\ pc = "run"
    /\ ~RangeExhausted(step, sim_steps)
    /\ fundamental_value >= 0
    /\ \E shock \in ShockSet :
         /\ fundamental_value = 0 => shock = 0
         /\ fundamental_value' = FundamentalAfter(fundamental_value, shock)
         /\ fundamental_history' = Append(fundamental_history,
                                          FundamentalAfter(fundamental_value, shock))
    /\ pc' = "collect"
    /\ UNCHANGED <<kind, agents, agentVars, histVars, current_price, price_history,
                   trading_volume, max_position, buy_orders, sell_orders, stats,
                   intents, matchVars, engineVars, call>>

\* ------------------------------------------ MarketEnvironment.update_price
RECURSIVE TotalValue2(_)
\* sum(quantity * price for _, _, quantity, price in transactions), doubled
TotalValue2(txs) ==
    IF txs = <<>> THEN 0 ELSE Head(txs)[3] * Head(txs)[4] + TotalValue2(Tail(txs))

RECURSIVE TotalQuantity(_)
\* sum(quantity for _, _, quantity, _ in transactions)
TotalQuantity(txs) ==
    IF txs = <<>> THEN 0 ELSE Head(txs)[3] + TotalQuantity(Tail(txs))

\* The weights the other way round: 0.4 * vwap + 0.6 * current_price
BlendSwapped(txs, cp) ==
    [num |-> 4 * TotalValue2(txs) + 12 * cp * TotalQuantity(txs),
     den |-> 20 * TotalQuantity(txs)]

\* 0.6 * vwap + 0.4 * current_price as the fraction num / den, with
\* vwap = total_value / total_volume
Blend(txs, cp) ==
    [num |-> 6 * TotalValue2(txs) + 8 * cp * TotalQuantity(txs),
     den |-> 20 * TotalQuantity(txs)]

\* No floor
PriceFloorNone(x) == x

\* max(0.01, new_price + noise)
PriceFloor(x) == Max(MinPrice, x)

\* A price update that overwrites the last entry of the history
SetPriceOverwrite(new_price) ==
    /\ current_price' = new_price
    /\ price_history' = [price_history EXCEPT ![Len(price_history)] = new_price]
    /\ stats' = [stats EXCEPT !.daily_returns =
                    Append(@, <<new_price, price_history[Len(price_history)]>>)]
    /\ pc' = "wealth"
    /\ UNCHANGED <<kind, agents, agentVars, histVars, fundamental_value,
                   fundamental_history, trading_volume, max_position, buy_orders,
                   sell_orders, intents, matchVars, engineVars, call>>

\* The price once new_price is known, new_price being a grid price
SetPrice(new_price) ==
    /\ current_price' = new_price
    /\ price_history' = Append(price_history, new_price)
    /\ stats' = [stats EXCEPT !.daily_returns =
                    Append(@, <<new_price, price_history[Len(price_history)]>>)]
    /\ pc' = "wealth"
    /\ UNCHANGED <<kind, agents, agentVars, histVars, fundamental_value,
                   fundamental_history, trading_volume, max_position, buy_orders,
                   sell_orders, intents, matchVars, engineVars, call>>

\* update_price(transactions) with no transaction: the random walk, floored,
\* then the noise, floored
UpdatePriceRandomWalk ==
    /\ pc = "price"
    /\ transactions = <<>>
    /\ \E random_change \in WalkSet, noise \in NoiseSet :
         SetPrice(PriceFloor(PriceFloor(current_price + random_change) + noise))

\* update_price(transactions) with transactions: the blend, then the noise,
\* floored.  The noise is continuous: the draws enumerated are those that
\* land blend + noise on a grid price, noise = n - (blend - floor(blend)).
UpdatePriceVWAP ==
    /\ pc = "price"
    /\ transactions # <<>>
    /\ \E n \in NoiseSet :
         LET b == Blend(transactions, current_price)
         IN SetPrice(PriceFloor(b.num \div b.den + n))

\* ------------------------------------------- step()'s end and run()'s row
\* The cash alone, the shares not marked to market
TotalWealthCashOnly(c, p, cp) == c

\* self.cash + self.position * current_price, in cash units
TotalWealth(c, p, cp) == c + p * cp * CashScale

OfKind(k) == {a \in Agents : kind[a] = k}

\* A total that predates the noise traders
TotalSystemPositionTwoKinds(fp, chp, np) == fp + chp

\* fundamentalist_position + chartist_position + noise_trader_position
TotalSystemPosition(fp, chp, np) == fp + chp + np

\* The row run() appends for the tick (the averages, sums divided by the
\* constant agent counts, are left out)
DataRow(pos, wh) ==
    LET fp == SumOver(pos, OfKind("Fundamentalist"))
        chp == SumOver(pos, OfKind("Chartist"))
        np == SumOver(pos, OfKind("NoiseTrader"))
        last == [a \in Agents |-> wh[a][Len(wh[a])]]
    IN [step |-> step,
        price |-> current_price,
        fundamental_value |-> fundamental_value,
        volume |-> total_volume,
        transactions |-> Len(transactions),
        fundamentalist_wealth |-> SumOver(last, OfKind("Fundamentalist")),
        chartist_wealth |-> SumOver(last, OfKind("Chartist")),
        noise_trader_wealth |-> SumOver(last, OfKind("NoiseTrader")),
        fundamentalist_total_position |-> fp,
        chartist_total_position |-> chp,
        noise_trader_total_position |-> np,
        total_system_position |-> TotalSystemPosition(fp, chp, np),
        return |-> <<price_history[Len(price_history)],
                     price_history[Len(price_history) - 1]>>]

\* agent.update_wealth(new_price) for every agent, step()'s summary, and the
\* row run() builds from it
EndTick ==
    /\ pc = "wealth"
    /\ wealth_history' = [a \in Agents |->
          Append(wealth_history[a], TotalWealth(cash[a], position[a], current_price))]
    /\ position_history' = [a \in Agents |-> Append(position_history[a], position[a])]
    /\ summary' = [price |-> current_price, fundamental |-> fundamental_value,
                   volume |-> total_volume, num_transactions |-> Len(transactions)]
    /\ data' = Append(data, DataRow(position, wealth_history'))
    /\ step' = step + 1
    /\ pc' = "run"
    /\ UNCHANGED <<kind, agents, agentVars, marketVars, intents, matchVars, sim_steps, call>>

\* range(self.sim_steps) is exhausted: run() returns the data
Finish ==
    /\ pc = "run"
    /\ RangeExhausted(step, sim_steps)
    /\ pc' = "done"
    /\ UNCHANGED <<kind, agents, agentVars, histVars, marketVars, intents, matchVars,
                   engineVars, call>>

\* ------------------------------------------------------------ the full run
\* sim_steps of the runs checked
MaxTicks == 2

\* initialize_agents: the fundamentalists first, then the chartists, the
\* noise traders last (one fundamentalist, one chartist, the others noise
\* traders), every agent with the same initial_wealth and initial_position
RunKinds ==
    [a \in Agents |-> IF a = 1 THEN "Fundamentalist"
                      ELSE IF a = 2 THEN "Chartist" ELSE "NoiseTrader"]
\* initial_wealth: the price of exactly one share, or of three and a half
WealthSet == {InitialPrice * CashScale, 7 * InitialPrice * (CashScale \div 2)}
InitialPosition == 2

Init ==
    /\ InitMarket(InitialPrice, InitialPrice, DefaultMaxPosition)
    /\ \E w \in WealthSet :
         InitAgents(RunKinds, [a \in Agents |-> w], [a \in Agents |-> InitialPosition])
    /\ InitLocals(MaxTicks)
    /\ pc = "run"

Matching == MatchBegin \/ MatchTrade \/ MatchFailed \/ MatchEnd

Next ==
    \/ UpdateFundamentalValue
    \/ CollectOrder
    \/ Matching
    \/ UpdatePriceRandomWalk
    \/ UpdatePriceVWAP
    \/ EndTick
    \/ Finish

Spec == Init /\ [][Next]_vars

\* The same run for every sim_steps up to MaxTicks, every agent starting
\* with the price of one share.  The program is one sequential thread:
\* whenever a step of it is possible, one is taken.
InitAnySteps ==
    /\ InitMarket(InitialPrice, InitialPrice, DefaultMaxPosition)
    /\ InitAgents(RunKinds, [a \in Agents |-> InitialPrice * CashScale],
                  [a \in Agents |-> InitialPosition])
    /\ \E n \in 0..MaxTicks : InitLocals(n)
    /\ pc = "run"

FairSpec == InitAnySteps /\ [][Next]_vars /\ WF_vars(Next)

\* ------------------------------- one tick of a market with a low limit
\* MarketEnvironment(max_position=...) with the limit at the position every
\* agent starts with
InitLimit ==
    /\ InitMarket(InitialPrice, InitialPrice, InitialPosition)
    /\ \E w \in WealthSet :
         InitAgents(RunKinds, [a \in Agents |-> w], [a \in Agents |-> InitialPosition])
    /\ InitLocals(1)
    /\ pc = "run"

SpecLimit == InitLimit /\ [][Next]_vars

\* ------------------------------------- one tick's matching, any intents
\* Agents of an arbitrary BaseAgent subclass: odd ids hold the cash of about
\* two shares at 1.00 and three shares, the others the cash of six and one share.
InitMatch ==
    /\ InitMarket(PriceScale, PriceScale, DefaultMaxPosition)
    /\ InitAgents([a \in Agents |-> "BaseAgent"], TradeCash, TradePosition)
    /\ InitLocals(1)
    /\ pc = "collect"

NextMatch == CollectOrder \/ Matching

SpecMatch == InitMatch /\ [][NextMatch]_vars

\* ------------------------------------------- one collect_orders call
\* self.buy_orders and self.sell_orders as the tick before left them: empty
\* (no tick has run, or none had orders), or with an order each
StaleOrdersSet == {<<<<>>, <<>>>>,
                   <<<<<<1, 1, PriceScale>>>>, <<<<NumAgents, 1, PriceScale>>>>>>}

InitCollect ==
    /\ current_price = PriceScale
    /\ fundamental_value = PriceScale
    /\ price_history = <<PriceScale>>
    /\ fundamental_history = <<PriceScale>>
    /\ trading_volume = <<0>>
    /\ max_position = DefaultMaxPosition
    /\ \E stale \in StaleOrdersSet : buy_orders = stale[1] /\ sell_orders = stale[2]
    /\ stats = [daily_returns |-> <<>>, total_volume |-> 0, transactions |-> <<>>]
    /\ InitAgents([a \in Agents |-> "BaseAgent"], TradeCash, TradePosition)
    /\ InitLocals(1)
    /\ pc = "collect"

SpecCollect == InitCollect /\ [][CollectOrder]_vars

\* match_orders is sequential code: whenever a step of it is possible, one
\* is taken.
FairSpecMatch == InitMatch /\ [][NextMatch]_vars /\ WF_vars(Matching)

\* --------------------------------------- one decide_action call, any state
DecidePriceSet == {MinPrice, InitialPrice \div 2, InitialPrice}
DecideGapSet == -4..4
DecidePositionSet == {0, 2, DefaultMaxPosition}
\* cash: none, just short of one share, exactly one share, two and a half,
\* three and a half, twenty
DecideCashSet(cp) == {0, cp * CashScale - 1, cp * CashScale,
                      5 * cp * (CashScale \div 2),
                      7 * cp * (CashScale \div 2), 20 * cp * CashScale}
\* The price before the current one: none (no tick has run), the same, the
\* double or the half
DecidePrevSet(cp) == {0, cp, 2 * cp} \cup {x \in {cp \div 2} : x >= MinPrice}

\* The market after one tick without a trade that moved the price from prev
\* to cp and left the fundamental value at fv
MarketAfterTick(prev, cp, fv, maxpos) ==
    /\ current_price = cp
    /\ fundamental_value = fv
    /\ price_history = <<prev, cp>>
    /\ fundamental_history = <<fv, fv>>
    /\ trading_volume = <<0, 0>>
    /\ max_position = maxpos
    /\ buy_orders = <<>>
    /\ sell_orders = <<>>
    /\ stats = [daily_returns |-> <<<<cp, prev>>>>, total_volume |-> 0,
                transactions |-> <<>>]

\* agent.decide_action(market), called directly; `call` keeps the draw and
\* the intent returned.
DecideAction(a) ==
    /\ pc = "decide"
    /\ call = <<>>
    /\ \E d \in DrawsOf(kind[a]) :
         call' = <<[agent |-> a, draw |-> d, intent |-> decide_action(a, d)]>>
    /\ UNCHANGED <<kind, agents, agentVars, histVars, marketVars, intents, matchVars,
                   engineVars, pc>>

InitDecide ==
    /\ \E cp \in DecidePriceSet, gap \in DecideGapSet :
         /\ cp + gap >= MinPrice
         /\ \E prev \in DecidePrevSet(cp) :
              IF prev = 0 THEN InitMarket(cp, cp + gap, DefaultMaxPosition)
              ELSE MarketAfterTick(prev, cp, cp + gap, DefaultMaxPosition)
         /\ \E c \in DecideCashSet(cp), p \in DecidePositionSet :
              InitAgents(RunKinds, [a \in Agents |-> c], [a \in Agents |-> p])
    /\ InitLocals(0)
    /\ pc = "decide"

NextDecide == \E a \in Agents : DecideAction(a)

SpecDecide == InitDecide /\ [][NextDecide]_vars

\* ------------------------------------------- setup, from construction on
\* initial_price and initial_fundamental_value: -10.00, 0, 0.01 and 10.00
SetupPriceSet == {-InitialPrice, 0, MinPrice, InitialPrice}

\* Nothing is constructed yet: every field holds a placeholder.
InitSetup ==
    /\ pc = "new"
    /\ current_price = 0
    /\ fundamental_value = 0
    /\ price_history = <<>>
    /\ fundamental_history = <<>>
    /\ trading_volume = <<>>
    /\ max_position = 0
    /\ buy_orders = <<>>
    /\ sell_orders = <<>>
    /\ stats = [daily_returns |-> <<>>, total_volume |-> 0, transactions |-> <<>>]
    /\ agents = <<>>
    /\ kind = [a \in Agents |-> "BaseAgent"]
    /\ cash = [a \in Agents |-> 0]
    /\ position = [a \in Agents |-> 0]
    /\ wealth_history = [a \in Agents |-> <<>>]
    /\ position_history = [a \in Agents |-> <<>>]
    /\ trade_history = [a \in Agents |-> <<>>]
    /\ InitLocals(MaxTicks)

\* MarketEnvironment(initial_price, initial_fundamental_value): the
\* constructor stores its arguments, whatever they are
Construct(initial_price, initial_fundamental_value) ==
    /\ pc = "new"
    /\ current_price' = initial_price
    /\ fundamental_value' = initial_fundamental_value
    /\ price_history' = <<initial_price>>
    /\ fundamental_history' = <<initial_fundamental_value>>
    /\ trading_volume' = <<0>>
    /\ max_position' = DefaultMaxPosition
    /\ pc' = "setup"
    /\ UNCHANGED <<kind, agents, agentVars, histVars, buy_orders, sell_orders,
                   stats, intents, matchVars, engineVars, call>>

\* initialize_agents with n agents in all, each created and added to
\* market.agents
InitializeAgents(n, initial_wealth) ==
    /\ pc = "setup"
    /\ agents' = [i \in 1..n |-> i]
    /\ IF n = 0
       THEN UNCHANGED <<kind, agentVars, histVars>>
       ELSE /\ kind' = RunKinds
            /\ cash' = [a \in Agents |-> initial_wealth]
            /\ position' = [a \in Agents |-> InitialPosition]
            /\ wealth_history' = [a \in Agents |-> <<initial_wealth>>]
            /\ position_history' = [a \in Agents |-> <<InitialPosition>>]
            /\ trade_history' = [a \in Agents |-> <<>>]
    /\ pc' = "ready"
    /\ UNCHANGED <<marketVars, intents, matchVars, engineVars, call>>

\* run(verbose) up to its loop: data = [], the agent counts, and under
\* verbose the initial state printed, whose averages divide by
\* len(self.market.agents): ZeroDivisionError for an empty market
RunBegin(verbose) ==
    /\ pc = "ready"
    /\ data' = <<>>
    /\ pc' = IF verbose /\ Len(agents) = 0 THEN "failed" ELSE "run"
    /\ UNCHANGED <<kind, agents, agentVars, histVars, marketVars, intents,
                   matchVars, summary, sim_steps, step, call>>

\* step()'s update_fundamental_value with a negative fundamental value:
\* np.random.normal raises ValueError (scale < 0) inside the first tick
UpdateFundamentalValueRaises ==
    /\ pc = "run"
    /\ ~RangeExhausted(step, sim_steps)
    /\ fundamental_value < 0
    /\ pc' = "failed"
    /\ UNCHANGED <<kind, agents, agentVars, histVars, marketVars, intents,
                   matchVars, engineVars, call>>

NextSetup ==
    \/ \E ip \in SetupPriceSet, ifv \in SetupPriceSet : Construct(ip, ifv)
    \/ \E n \in {0, NumAgents}, w \in WealthSet : InitializeAgents(n, w)
    \/ \E verbose \in BOOLEAN : RunBegin(verbose)
    \/ UpdateFundamentalValue
    \/ UpdateFundamentalValueRaises

SpecSetup == InitSetup /\ [][NextSetup]_vars

\* ------------------------------------------------------------ the readers
SeqMax(seq) == CHOOSE x \in {seq[i] : i \in 1..Len(seq)} :
                   \A i \in 1..Len(seq) : x >= seq[i]
SeqMin(seq) == CHOOSE x \in {seq[i] : i \in 1..Len(seq)} :
                   \A i \in 1..Len(seq) : x <= seq[i]
RECURSIVE SeqSum(_)
SeqSum(seq) == IF seq = <<>> THEN 0 ELSE Head(seq) + SeqSum(Tail(seq))

\* The dict get_agent_data builds, keyed by agent_id
AgentData ==
    [i \in 1..Len(agents) |->
        LET a == agents[i]
        IN [type |-> kind[a],
            final_wealth |-> wealth_history[a][Len(wealth_history[a])],
            final_position |-> position[a],
            wealth_history |-> wealth_history[a],
            position_history |-> position_history[a],
            trades |-> Len(trade_history[a])]]

\* The dict get_market_statistics computes from self.data (the means, the
\* standard deviations and the ratios built on them are left out; the
\* average wealths are kept as the sums they are the quotients of)
MarketStatistics(d) ==
    LET price == [i \in 1..Len(d) |-> d[i].price]
        fundamental == [i \in 1..Len(d) |-> d[i].fundamental_value]
        volume == [i \in 1..Len(d) |-> d[i].volume]
        n == Len(d)
    IN [price |-> [initial |-> price[1], final |-> price[n],
                   min |-> SeqMin(price), max |-> SeqMax(price)],
        fundamental |-> [initial |-> fundamental[1], final |-> fundamental[n]],
        mispricing |-> [initial |-> fundamental[1] - price[1],
                        final |-> fundamental[n] - price[n]],
        volume |-> [total |-> SeqSum(volume), max |-> SeqMax(volume)],
        agent_performance |->
            [fundamentalist_initial_wealth |-> d[1].fundamentalist_wealth,
             fundamentalist_final_wealth |-> d[n].fundamentalist_wealth,
             chartist_initial_wealth |-> d[1].chartist_wealth,
             chartist_final_wealth |-> d[n].chartist_wealth,
             noise_trader_initial_wealth |-> d[1].noise_trader_wealth,
             noise_trader_final_wealth |-> d[n].noise_trader_wealth,
             fundamentalist_final_position |-> d[n].fundamentalist_total_position,
             chartist_final_position |-> d[n].chartist_total_position,
             noise_trader_final_position |-> d[n].noise_trader_total_position]]

\* A read made between ticks or after the run; `call` keeps what was read,
\* where, and the value returned.
Read(accessor, value) ==
    /\ pc \in {"run", "done"}
    /\ Len(call) < MaxCalls
    /\ call' = Append(call, [accessor |-> accessor, at |-> <<pc, step>>,
                             value |-> value])
    /\ UNCHANGED <<kind, agents, agentVars, histVars, marketVars, intents,
                   matchVars, engineVars, pc>>

\* A get_agent_data that marks the wealth to market before it reports it
GetAgentDataMarking ==
    /\ pc \in {"run", "done"}
    /\ Len(call) < MaxCalls
    /\ wealth_history' = [a \in Agents |->
          Append(wealth_history[a], TotalWealth(cash[a], position[a], current_price))]
    /\ call' = Append(call, [accessor |-> "get_agent_data", at |-> <<pc, step>>,
                             value |-> <<AgentData, wealth_history'>>])
    /\ UNCHANGED <<kind, agents, agentVars, position_history, marketVars, intents,
                   matchVars, engineVars, pc>>

\* engine.get_agent_data()
GetAgentData == Read("get_agent_data", AgentData)

\* engine.get_market_statistics(): None while self.data is None, that is
\* until run() has returned
GetMarketStatistics ==
    Read("get_market_statistics",
         IF pc = "done" THEN <<MarketStatistics(data)>> ELSE <<>>)

\* The market's histories and totals, read as the attributes they are:
\* price_history, fundamental_history, trading_volume, and the
\* transaction log and cumulative volume of stats
ReadMarket ==
    Read("market", <<price_history, fundamental_history, trading_volume,
                     stats.transactions, stats.total_volume>>)

\* A one-tick run of the three strategies, with reads before and after
InitRead ==
    /\ InitMarket(InitialPrice, InitialPrice, DefaultMaxPosition)
    /\ \E w \in WealthSet :
         InitAgents(RunKinds, [a \in Agents |-> w], [a \in Agents |-> InitialPosition])
    /\ InitLocals(1)
    /\ pc = "run"

NextRead == Next \/ GetAgentData \/ GetMarketStatistics \/ ReadMarket

SpecRead == InitRead /\ [][NextRead]_vars

\* ================================================================= claims
Last(seq) == seq[Len(seq)]
InitialShares == SumOver([a \in Agents |-> position_history[a][1]], Agents)
HasTrade(a, action_type) ==
    \E i \in 1..Len(trade_history[a]) : trade_history[a][i][1] = action_type

\* C1 (as claimed): the sum of position over all agents after the matching
\* loop equals the sum before it, and the total after any number of ticks
\* equals the total at tick 0.
C1_SharesConserved ==
    /\ pc = "price" => TotalShares(position) = total_shares_before
    /\ pc \in {"run", "done"} => TotalShares(position) = InitialShares

\* C2: no agent has negative cash or a negative position, at any point of
\* any run that starts with non-negative cash and positions.
C2_Solvency == \A a \in Agents : cash[a] >= 0 /\ position[a] >= 0

\* A run in which a buy and a sell have executed
C2_Witness ==
    /\ pc = "done"
    /\ \E a, b \in Agents : HasTrade(a, "buy") /\ HasTrade(b, "sell")
                            /\ cash[a] < wealth_history[a][1]

\* C3: current_price and fundamental_value are positive, at least the floor
\* 0.01, after every tick (and at every point in between), as is every
\* entry of their histories.
C3_PricePositive ==
    /\ current_price > 0 /\ current_price >= MinPrice
    /\ fundamental_value > 0 /\ fundamental_value >= MinPrice
    /\ \A i \in 1..Len(price_history) : price_history[i] >= MinPrice
    /\ \A i \in 1..Len(fundamental_history) : fundamental_history[i] >= MinPrice

\* A tick has ended with both values on the floor
C3_Witness ==
    /\ step >= 1
    /\ pc = "run"
    /\ current_price = MinPrice
    /\ fundamental_value = MinPrice

\* C4: when the heads cross and both executor calls succeed, exactly one
\* transaction (buyer, seller, min(qb, qs), (b + s) / 2) is recorded, the
\* positions move by that quantity, the cash by that quantity at that price
\* with the cost, and the tick volume grows by that quantity.
C4_MatchExecutes ==
    [][(/\ InLoop
        /\ 101 * Head(m_buy_orders)[3] >= 100 * Head(m_sell_orders)[3]
        /\ LET b == Head(m_buy_orders)
               s == Head(m_sell_orders)
               q == IF b[2] <= s[2] THEN b[2] ELSE s[2]
           IN /\ cash[b[1]] >= q * (b[3] + s[3]) * (RateDen + DefaultCostRate)
              /\ position[s[1]] >= q)
       => LET b == Head(m_buy_orders)
              s == Head(m_sell_orders)
              q == IF b[2] <= s[2] THEN b[2] ELSE s[2]
          IN /\ transactions' = Append(transactions, <<b[1], s[1], q, b[3] + s[3]>>)
             /\ position'[b[1]] = position[b[1]] + q
             /\ position'[s[1]] = position[s[1]] - q
             /\ cash'[b[1]] = cash[b[1]] - q * (b[3] + s[3]) * (RateDen + DefaultCostRate)
             /\ cash'[s[1]] = cash[s[1]] + q * (b[3] + s[3]) * (RateDen - DefaultCostRate)
             /\ total_volume' = total_volume + q
             /\ pc' = "loop"]_vars

\* The example: a buy at 1.01 against an equal sell at 1.00 has traded in
\* full at 1.005
C4_Witness ==
    /\ pc = "loop"
    /\ Len(transactions) = 1
    /\ LET t == transactions[1]
       IN /\ t[4] = 201 * MinPrice
          /\ intents[t[1]] = <<"buy", t[3], 101 * MinPrice>>
          /\ intents[t[2]] = <<"sell", t[3], 100 * MinPrice>>
          /\ t[3] = MaxQty

NoOrdersCross ==
    \A i \in 1..Len(buy_orders), j \in 1..Len(sell_orders) :
        101 * buy_orders[i][3] < 100 * sell_orders[j][3]

\* C5: if 1.01 times the best buy's limit is below the best sell's limit,
\* matching ends without a trade: volume 0, no transaction, and no agent's
\* cash, position or trade log changed.
C5_NoCrossNoTrade ==
    (pc \in {"loop", "price"} /\ buy_orders # <<>> /\ sell_orders # <<>> /\ NoOrdersCross)
    => /\ total_volume = 0
       /\ transactions = <<>>
       /\ m_buy_orders # <<>> /\ m_sell_orders # <<>>
       /\ cash = TradeCash
       /\ position = TradePosition
       /\ \A a \in Agents : trade_history[a] = <<>>
       /\ pc = "price" => /\ Last(trading_volume) = 0
                          /\ stats.total_volume = 0
                          /\ stats.transactions = <<>>

\* Matching is over with a buy at 0.99 and a sell at 1.00 on the lists
C5_Witness ==
    /\ pc = "price"
    /\ NoOrdersCross
    /\ \E i \in 1..Len(buy_orders) : buy_orders[i][3] = 99 * MinPrice
    /\ \E j \in 1..Len(sell_orders) : sell_orders[j][3] = 100 * MinPrice

\* C6: after a successful match of a larger buy, the sell head is removed
\* and the buy stays at the head with its quantity reduced by the matched
\* amount and its limit price unchanged; symmetrically for a larger sell.
C6_PartialFill ==
    [][(InLoop /\ Len(transactions') = Len(transactions) + 1)
       => LET b == Head(m_buy_orders)
              s == Head(m_sell_orders)
          IN /\ b[2] > s[2] =>
                  /\ m_sell_orders' = Tail(m_sell_orders)
                  /\ m_buy_orders' = <<<<b[1], b[2] - s[2], b[3]>>>> \o Tail(m_buy_orders)
             /\ s[2] > b[2] =>
                  /\ m_buy_orders' = Tail(m_buy_orders)
                  /\ m_sell_orders' = <<<<s[1], s[2] - b[2], s[3]>>>> \o Tail(m_sell_orders)]_vars

\* A buy of 3 has been filled by a sell of 1: the residual buy of 2 is at the head
C6_Witness ==
    /\ pc = "loop"
    /\ Len(transactions) = 1
    /\ transactions[1][3] = 1
    /\ m_buy_orders # <<>>
    /\ LET h == Head(m_buy_orders)
       IN /\ h[1] = transactions[1][1]
          /\ intents[h[1]] = <<"buy", 3, h[3]>>
          /\ h[2] = 2

\* C7: execute_trade returns False and changes nothing when a buy is short
\* of quantity * price * (1 + cost_rate), when a sell is short of shares,
\* and when the action is neither buy nor sell.
C7_FailedTradeNoMutation ==
    [][call' # call =>
        LET k == Last(call')
        IN (\/ /\ k.action_type = "buy"
               /\ cash[k.agent] < k.quantity * k.price2 * (RateDen + k.rate)
            \/ /\ k.action_type = "sell"
               /\ position[k.agent] < k.quantity
            \/ k.action_type \notin {"buy", "sell"})
           => /\ k.ok = FALSE
              /\ cash' = cash
              /\ position' = position
              /\ trade_history' = trade_history]_vars

\* A buy short of cash and a call with another action have both been refused
C7_Witness ==
    /\ Len(call) = 2
    /\ call[1].action_type = "buy" /\ ~call[1].ok
    /\ call[2].action_type = "hold" /\ ~call[2].ok

\* C8: a buy succeeds exactly when cash >= quantity * price * (1 + cost_rate)
\* and then debits that amount and credits quantity shares; a sell succeeds
\* exactly when position >= quantity and then credits quantity * price *
\* (1 - cost_rate) and debits the shares; each success appends exactly one
\* entry (action, quantity, price) to the trade log.
C8_TradeEffect ==
    [][call' # call =>
        LET k == Last(call')
            a == k.agent
        IN /\ k.action_type = "buy" =>
                 /\ k.ok <=> cash[a] >= k.quantity * k.price2 * (RateDen + k.rate)
                 /\ k.ok => /\ cash'[a] = cash[a] - k.quantity * k.price2 * (RateDen + k.rate)
                            /\ position'[a] = position[a] + k.quantity
           /\ k.action_type = "sell" =>
                 /\ k.ok <=> position[a] >= k.quantity
                 /\ k.ok => /\ cash'[a] = cash[a] + k.quantity * k.price2 * (RateDen - k.rate)
                            /\ position'[a] = position[a] - k.quantity
           /\ k.ok => trade_history'[a] =
                        Append(trade_history[a], <<k.action_type, k.quantity, k.price2>>)]_vars

\* A buy and then a sell of the same agent have both succeeded
C8_Witness ==
    /\ Len(call) = 2
    /\ call[1].action_type = "buy" /\ call[1].ok
    /\ call[2].action_type = "sell" /\ call[2].ok
    /\ call[1].agent = call[2].agent

\* C9: execute_trade changes the cash, position and trade log of no other
\* agent, and no field of the market.
C9_TradeFrame ==
    [][call' # call =>
        LET k == Last(call')
        IN /\ \A b \in Agents \ {k.agent} :
                 /\ cash'[b] = cash[b]
                 /\ position'[b] = position[b]
                 /\ trade_history'[b] = trade_history[b]
           /\ UNCHANGED <<marketVars, histVars, intents, matchVars>>]_vars

\* Two agents have each traded successfully
C9_Witness ==
    /\ Len(call) = 2
    /\ call[1].ok /\ call[2].ok
    /\ call[1].agent # call[2].agent

\* The mispricing of a recorded Fundamentalist call
Mispricing(k) == fundamental_value + k.draw.noise - current_price
FundamentalistCalls ==
    {i \in 1..Len(call) : kind[call[i].agent] = "Fundamentalist"}

\* C10 (as claimed): a Fundamentalist whose absolute mispricing is at most
\* 0.002 * current price, the boundary included, returns hold.
C10_HoldAtBoundary ==
    \A i \in FundamentalistCalls :
        1000 * Abs(Mispricing(call[i])) <= 2 * current_price => call[i].intent = Hold

\* C10 (amended): it returns hold for every absolute mispricing strictly
\* below 0.002 * current price; at exactly that value it sells when the
\* price is above its estimate and it has shares, and buys when the price is
\* below its estimate and its cash covers one share at the current price.
C10_HoldBelowBoundary ==
    \A i \in FundamentalistCalls :
        LET k == call[i]
            m == Mispricing(k)
        IN /\ 1000 * Abs(m) < 2 * current_price => k.intent = Hold
           /\ 1000 * Abs(m) = 2 * current_price =>
                 /\ (m > 0 /\ cash[k.agent] >= current_price * CashScale)
                       => (k.intent[1] = "buy" /\ k.intent[2] >= 1)
                 /\ (m < 0 /\ position[k.agent] > 0)
                       => (k.intent[1] = "sell" /\ k.intent[2] >= 1)

\* A Fundamentalist exactly at the boundary has returned a buy
C10_Witness ==
    \E i \in FundamentalistCalls :
        /\ 1000 * Abs(Mispricing(call[i])) = 2 * current_price
        /\ call[i].intent[1] = "buy"

\* C11 (as claimed): a market constructed with a non-positive initial price
\* or fundamental value does not exist (construction has failed), and the
\* loop of run() is never reached with an empty agent set.
C11_DegenerateRejected ==
    /\ pc \in {"setup", "ready", "run", "collect"}
          => price_history[1] > 0 /\ fundamental_history[1] > 0
    /\ pc \in {"run", "collect"} => agents # <<>>

\* C12: when the share count after the matching loop differs from the count
\* before it, match_orders prints its warning and still finishes: the
\* tick's volume and transactions are added to the statistics, the volume
\* is returned to step(), which goes on to the price update, and the run
\* goes on to the following ticks.
C12_ViolationReported ==
    [][(pc = "loop" /\ pc' # "loop" /\ TotalShares(position) # total_shares_before)
       => /\ warned'
          /\ stats'.total_volume = stats.total_volume + total_volume
          /\ stats'.transactions = stats.transactions \o transactions
          /\ trading_volume' = Append(trading_volume, total_volume)
          /\ pc' = "price"
          /\ UNCHANGED <<agentVars, step, data>>]_vars

\* The run has completed all its ticks after a first tick that lost shares
C12_Witness ==
    /\ pc = "done"
    /\ Len(data) = MaxTicks
    /\ data[1].total_system_position # InitialShares
    /\ Len(trading_volume) = MaxTicks + 1

\* C14: a read of the histories, the transaction log, the cumulative
\* volume, get_agent_data or get_market_statistics changes no market or
\* agent state, and returns what the same read returned before if no tick
\* ran in between.
C14_ReadsIdempotent ==
    [][call' # call =>
        /\ UNCHANGED <<kind, agents, agentVars, histVars, marketVars, intents,
                       matchVars, engineVars, pc>>
        /\ \A i \in 1..Len(call) :
              (call[i].accessor = Last(call').accessor /\ call[i].at = Last(call').at)
                 => call[i].value = Last(call').value]_vars

\* get_agent_data has been read twice after a tick in which a trade executed
C14_Witness ==
    /\ Len(call) = 2
    /\ call[1].accessor = "get_agent_data" /\ call[2].accessor = "get_agent_data"
    /\ call[1].at = call[2].at
    /\ step = 1
    /\ \E i \in 1..Len(agents) : call[2].value[i].trades > 0

\* The ticks step() has completed: one price is appended per tick
TicksExecuted == Len(price_history) - 1

\* run() has returned sim_steps rows, indexed 0..sim_steps-1 in order, after
\* exactly sim_steps ticks
RunComplete ==
    /\ pc = "done"
    /\ TicksExecuted = sim_steps
    /\ Len(fundamental_history) - 1 = sim_steps
    /\ Len(trading_volume) - 1 = sim_steps
    /\ Len(data) = sim_steps
    /\ \A i \in 1..Len(data) : data[i].step = i - 1

\* C15: run() terminates, and has then executed exactly sim_steps ticks and
\* produced exactly sim_steps tick records, with step indices
\* 0..sim_steps-1 in increasing order.
C15_RunTerminates == <>[]RunComplete

\* A run of MaxTicks ticks has returned
C15_Witness == pc = "done" /\ sim_steps = MaxTicks /\ Len(data) = MaxTicks

\* The recorded decide_action calls of the three strategies
StrategyCalls ==
    {i \in 1..Len(call) :
        kind[call[i].agent] \in {"Fundamentalist", "Chartist", "NoiseTrader"}}

\* C16: every intent a Fundamentalist, Chartist or NoiseTrader returns with
\* action buy or sell has an integer quantity of at least 1, and an intent
\* with quantity 0 has action hold.
C16_QuantityAtLeastOne ==
    \A i \in StrategyCalls :
        LET intent == call[i].intent
        IN /\ intent[2] \in Nat
           /\ intent[1] \in {"buy", "sell"} => intent[2] >= 1
           /\ intent[2] = 0 => intent[1] = "hold"

\* A Chartist whose desired change and position headroom are both 0 has
\* returned a buy of one share
C16_Witness ==
    \E i \in StrategyCalls :
        /\ kind[call[i].agent] = "Chartist"
        /\ position[call[i].agent] = max_position
        /\ call[i].intent[1] = "buy" /\ call[i].intent[2] = 1

\* C17: in every tick record, total_system_position is the sum of the
\* positions all registered agents held at the end of that tick.
C17_TotalSystemPosition ==
    \A i \in 1..Len(data) :
        data[i].total_system_position =
            SumOver([a \in Agents |-> position_history[a][i + 1]],
                    {agents[j] : j \in 1..Len(agents)})

\* Two ticks are recorded, the second with a trade between the chartist and
\* a noise trader
C17_Witness ==
    /\ Len(data) = 2
    /\ data[1].noise_trader_total_position # data[2].noise_trader_total_position
    /\ data[1].chartist_total_position # data[2].chartist_total_position
    /\ data[2].total_system_position = InitialShares

\* Whether the matching step changed the cash or the position of agent a
LedgerChanged(a) == cash'[a] # cash[a] \/ position'[a] # position[a]

\* C18 (as claimed): for every matched head pair either both the buyer's and
\* the seller's cash and position are updated, or neither agent's are: a
\* trade is never applied to one side only.
C18_BothOrNeither ==
    [][(InLoop /\ 101 * Head(m_buy_orders)[3] >= 100 * Head(m_sell_orders)[3])
       => (LedgerChanged(Head(m_buy_orders)[1]) <=> LedgerChanged(Head(m_sell_orders)[1]))]_vars

\* C19: in every iteration of the matching loop the head buy (limit b) and
\* the head sell (limit s) are matched, that is the executors are called and
\* the loop goes on with updated heads, if and only if 1.01 * b >= s, the
\* sell price taken as it is; otherwise the loop ends and nothing changes.
C19_MatchIffWithinTolerance ==
    [][InLoop =>
        LET b == Head(m_buy_orders)[3]
            s == Head(m_sell_orders)[3]
        IN IF 101 * b >= 100 * s
           THEN /\ pc' = "loop"
                /\ <<m_buy_orders', m_sell_orders'>> # <<m_buy_orders, m_sell_orders>>
                /\ (cash[Head(m_buy_orders)[1]] >=
                        Min(Head(m_buy_orders)[2], Head(m_sell_orders)[2]) * (b + s)
                           * (RateDen + DefaultCostRate)
                     /\ position[Head(m_sell_orders)[1]] >=
                        Min(Head(m_buy_orders)[2], Head(m_sell_orders)[2]))
                      => Len(transactions') = Len(transactions) + 1
           ELSE /\ pc' = "price"
                /\ UNCHANGED <<agentVars, m_buy_orders, m_sell_orders, transactions,
                               total_volume>>]_vars

\* A buy at 1.00 and a sell at 1.01, exactly 1% above it, have traded
C19_Witness ==
    /\ pc = "loop"
    /\ Len(transactions) >= 1
    /\ LET t == transactions[1]
       IN /\ intents[t[1]][3] = 100 * MinPrice
          /\ intents[t[2]][3] = 101 * MinPrice

\* C20: when an executor call fails for a matched head pair, the head of
\* each failing side is removed for good, the head of a side whose call did
\* not fail stays with its quantity and price, no transaction is recorded,
\* the tick volume does not grow, and the loop goes on.
C20_FailedCallDropsHead ==
    [][InLoop =>
        LET b == Head(m_buy_orders)
            s == Head(m_sell_orders)
            q == Min(b[2], s[2])
            buy_ok == cash[b[1]] >= q * (b[3] + s[3]) * (RateDen + DefaultCostRate)
            sell_ok == position[s[1]] >= q
        IN (101 * b[3] >= 100 * s[3] /\ ~(buy_ok /\ sell_ok))
           => /\ m_buy_orders' = IF buy_ok THEN m_buy_orders ELSE Tail(m_buy_orders)
              /\ m_sell_orders' = IF sell_ok THEN m_sell_orders ELSE Tail(m_sell_orders)
              /\ transactions' = transactions
              /\ total_volume' = total_volume
              /\ pc' = "loop"
              /\ UNCHANGED <<buy_orders, sell_orders, stats, trading_volume>>]_vars

\* A buy has failed and been dropped while every sell order is still listed,
\* and the loop is going on
C20_Witness ==
    /\ pc = "loop"
    /\ transactions = <<>>
    /\ sell_orders # <<>>
    /\ m_sell_orders = SortSellOrders(sell_orders)
    /\ Len(m_buy_orders) = Len(buy_orders) - 1
    /\ m_buy_orders # <<>>

\* The position agent a held when the tick's matching began: positions
\* change in matching only, and every tick's end records them
PositionBefore(a) == Last(position_history[a])

\* C21 (as claimed): within one tick each agent's position changes by at
\* most the quantity of the one order it submitted and only in that order's
\* direction, and the cash and position of an agent that submitted hold do
\* not change during matching.
C21_OneOrderBoundsChange ==
    /\ [](pc \in {"loop", "price", "wealth"} =>
            \A a \in Agents :
               LET intent == intents[a]
                   change == position[a] - PositionBefore(a)
               IN /\ intent[1] = "buy" => (0 <= change /\ change <= intent[2])
                  /\ intent[1] = "sell" => (-intent[2] <= change /\ change <= 0)
                  /\ intent[1] = "hold" => change = 0)
    /\ [][pc = "loop" =>
            \A a \in Agents :
               intents[a][1] = "hold" => (cash'[a] = cash[a] /\ position'[a] = position[a])]_vars

\* C22: the matching loop terminates for every pair of buy and sell lists;
\* every iteration either leaves the loop or removes the head order of the
\* buy list or of the sell list, so there are at most len(buy list) +
\* len(sell list) iterations.
C22_LoopTerminates ==
    /\ [][InLoop => \/ pc' # "loop"
                    \/ m_buy_orders' = Tail(m_buy_orders)
                    \/ m_sell_orders' = Tail(m_sell_orders)]_vars
    /\ [](pc \in {"loop", "price"} => iterations <= Len(buy_orders) + Len(sell_orders))
    /\ (pc = "loop" ~> pc = "price")

\* The loop has ended after two iterations on three orders, each of which
\* failed and dropped an order
C22_Witness ==
    /\ pc = "price"
    /\ iterations = 2
    /\ Len(buy_orders) + Len(sell_orders) = 3
    /\ transactions = <<>>

\* C23: when the matching loop has stopped, no buy order and sell order left
\* in the lists satisfy 1.01 * buy price >= sell price.
C23_NoMatchLeft ==
    pc = "price" =>
        \A i \in 1..Len(m_buy_orders), j \in 1..Len(m_sell_orders) :
            101 * m_buy_orders[i][3] < 100 * m_sell_orders[j][3]

\* The loop has stopped after a trade with a buy order and a partly filled
\* sell order left
C23_Witness ==
    /\ pc = "price"
    /\ Len(transactions) = 1
    /\ m_buy_orders # <<>>
    /\ m_sell_orders # <<>>
    /\ Head(m_sell_orders)[1] = transactions[1][2]

\* The place of agent a in the order of registration (add_agent)
Registration(a) == CHOOSE i \in 1..Len(agents) : agents[i] = a

\* Order o is not behind order k of the same list: its price is better, or
\* equal with its agent registered earlier
HasPriority(o, k, buy) ==
    \/ IF buy THEN o[3] > k[3] ELSE o[3] < k[3]
    \/ o[3] = k[3] /\ Registration(o[1]) <= Registration(k[1])

\* C24: every trade involves the highest-priced remaining buy and the
\* lowest-priced remaining sell, and among the orders of one side with equal
\* limit price that of the agent registered earlier is matched first.
C24_PricePriority ==
    [][Len(transactions') = Len(transactions) + 1 =>
        LET t == Last(transactions')
        IN /\ \E o \in {m_buy_orders[i] : i \in 1..Len(m_buy_orders)} :
                 /\ o[1] = t[1]
                 /\ \A k \in 1..Len(m_buy_orders) : HasPriority(o, m_buy_orders[k], TRUE)
           /\ \E o \in {m_sell_orders[i] : i \in 1..Len(m_sell_orders)} :
                 /\ o[1] = t[2]
                 /\ \A k \in 1..Len(m_sell_orders) : HasPriority(o, m_sell_orders[k], FALSE)]_vars

\* Two buy orders at the same limit price were collected, and the first
\* trade went to the agent registered first
C24_Witness ==
    /\ pc = "loop"
    /\ Len(transactions) = 1
    /\ Len(buy_orders) = 2
    /\ buy_orders[1][3] = buy_orders[2][3]
    /\ transactions[1][1] = buy_orders[1][1]
    /\ Len(m_buy_orders) = 2

RECURSIVE OrdersAmong(_, _)
\* The orders with the given action among the first n intents returned, in
\* the order of the calls, each with the agent it came from
OrdersAmong(n, action) ==
    IF n = 0 THEN <<>>
    ELSE LET rest == OrdersAmong(n - 1, action)
             intent == intents[n]
         IN IF intent[1] = action /\ intent[2] > 0
            THEN Append(rest, <<agents[n], intent[2], intent[3]>>)
            ELSE rest

\* C25: collect_orders calls decide_action of every registered agent exactly
\* once, in registration order, and an agent's order is in the buy list
\* (sell list) if and only if it returned buy (sell) with a quantity above
\* 0; so every agent has at most one order in the tick and a hold or a
\* zero-quantity intent is in neither list.
C25_CollectPartitions ==
    /\ [](intents # <<>> =>
            /\ Len(intents) <= Len(agents)
            /\ buy_orders = OrdersAmong(Len(intents), "buy")
            /\ sell_orders = OrdersAmong(Len(intents), "sell"))
    /\ [](pc = "match" => Len(intents) = Len(agents))
    /\ [][Len(intents') = Len(intents) + 1]_vars

\* All agents have been asked: the first returned hold, the second a buy of
\* no share, and the last one's sell order is the only order listed
C25_Witness ==
    /\ pc = "match"
    /\ intents[1] = Hold
    /\ intents[2][1] = "buy" /\ intents[2][2] = 0
    /\ buy_orders = <<>>
    /\ Len(sell_orders) = 1
    /\ sell_orders[1][1] = agents[Len(agents)]

\* C26: in every transaction the matcher records, the buyer and the seller
\* are different agents.
C26_NoSelfTrade ==
    /\ \A i \in 1..Len(transactions) : transactions[i][1] # transactions[i][2]
    /\ \A i \in 1..Len(stats.transactions) :
          stats.transactions[i][1] # stats.transactions[i][2]

\* A tick's matching has ended with two transactions in the market's log,
\* both with the same seller
C26_Witness ==
    /\ pc = "price"
    /\ Len(stats.transactions) = 2
    /\ stats.transactions[1][2] = stats.transactions[2][2]

\* The order in which control passes through run() and step()
PhaseOrder ==
    {<<"run", "collect">>, <<"collect", "match">>, <<"match", "loop">>,
     <<"loop", "price">>, <<"price", "wealth">>, <<"wealth", "run">>,
     <<"run", "done">>}

C28_HistoriesExtended ==
    /\ [][pc = "wealth" =>
            /\ Len(price_history) = step + 2
            /\ \A i \in 1..Len(agents) :
                 LET a == agents[i]
                 IN /\ wealth_history'[a] =
                          Append(wealth_history[a],
                                 cash[a] + position[a] * Last(price_history) * CashScale)
                    /\ position_history'[a] = Append(position_history[a], position[a])]_vars
    /\ [][pc # "wealth" => UNCHANGED histVars]_vars
    /\ [](\A a \in Agents :
            /\ Len(wealth_history[a]) = Len(position_history[a])
            /\ Len(wealth_history[a]) = 1 + (IF pc = "done" THEN sim_steps ELSE step))

\* Two ticks have been marked for an agent that traded in both: three
\* different positions are on its history
C28_Witness ==
    /\ pc = "done"
    /\ \E a \in Agents :
          /\ Len(position_history[a]) = 3
          /\ position_history[a][1] # position_history[a][2]
          /\ position_history[a][2] # position_history[a][3]
          /\ wealth_history[a][3] # wealth_history[a][2]

\* The recorded decide_action calls of the Fundamentalist and the Chartist
TrendOrValueCalls ==
    {i \in 1..Len(call) : kind[call[i].agent] \in {"Fundamentalist", "Chartist"}}

\* C29 (as claimed): a buy intent returned by a Fundamentalist or a Chartist
\* has a quantity of at most min(int(0.7 * cash / current price),
\* max_position - current position), for every cash, position and price.
C29_BuyWithinCaps ==
    \A i \in TrendOrValueCalls :
        LET a == call[i].agent
            intent == call[i].intent
        IN intent[1] = "buy" =>
              /\ intent[2] <= CashMulDiv(7, cash[a], 10 * current_price)
              /\ intent[2] <= max_position - position[a]

\* C30 (as claimed): after any number of ticks no agent's position exceeds
\* the market's max_position, provided every agent started at or below it.
C30_PositionWithinLimit ==
    (\A a \in Agents : position_history[a][1] <= max_position)
    => \A a \in Agents : position[a] <= max_position

\* C31: a sell intent returned by any of the three strategies has a
\* quantity of at most the agent's current position, and an agent whose
\* position is below 1 never returns a sell intent.
C31_SellWithinHoldings ==
    \A i \in StrategyCalls :
        LET a == call[i].agent
            intent == call[i].intent
        IN /\ intent[1] = "sell" => (1 <= intent[2] /\ intent[2] <= position[a])
           /\ position[a] < 1 => intent[1] # "sell"

\* A noise trader that drew a quantity above its holdings has returned a
\* sell of all it holds
C31_Witness ==
    \E i \in StrategyCalls :
        /\ kind[call[i].agent] = "NoiseTrader"
        /\ call[i].draw.action = "sell"
        /\ call[i].draw.quantity > position[call[i].agent]
        /\ call[i].intent[1] = "sell"
        /\ call[i].intent[2] = position[call[i].agent]

\* The recorded decide_action calls of the noise traders
NoiseTraderCalls == {i \in 1..Len(call) : kind[call[i].agent] = "NoiseTrader"}

\* C32: a NoiseTrader's buy intent has a quantity of at most
\* int(0.9 * cash / limit price) and at most max_order_size, and the trader
\* returns hold instead of a buy when that cash cap is below 1.
C32_NoiseBuyWithinCash ==
    \A i \in NoiseTraderCalls :
        LET a == call[i].agent
            intent == call[i].intent
            d == call[i].draw
            limit == IF d.dev < 0 THEN Min(current_price, (99 * current_price + 99) \div 100)
                     ELSE IF d.dev > 0 THEN Max(current_price, (101 * current_price - 1) \div 100)
                     ELSE current_price
        IN /\ intent[1] = "buy" =>
                /\ intent[3] = limit
                /\ intent[2] >= 1
                /\ intent[2] <= CashMulDiv(9, cash[a], 10 * limit)
                /\ intent[2] <= MaxQty
           /\ (d.trade /\ d.action = "buy" /\ CashMulDiv(9, cash[a], 10 * limit) < 1)
                 => intent = Hold

\* A noise trader with the cash of two and a half shares that drew a buy of
\* three has returned a buy of two
C32_Witness ==
    \E i \in NoiseTraderCalls :
        /\ call[i].draw.action = "buy"
        /\ call[i].draw.quantity = 3
        /\ call[i].intent[1] = "buy"
        /\ call[i].intent[2] = 2

\* The recorded decide_action calls of the chartists
ChartistCalls == {i \in 1..Len(call) : kind[call[i].agent] = "Chartist"}

\* C33: a Chartist returns hold whenever the market's price history has
\* fewer than memory entries, whatever the prices, its cash and its position.
C33_HoldOnShortHistory ==
    \A i \in ChartistCalls :
        Len(price_history) < ChartistMemory => call[i].intent = Hold

\* A chartist with the cash of twenty shares and shares to sell has held on
\* a price history of one entry
C33_Witness ==
    \E i \in ChartistCalls :
        /\ Len(price_history) = 1
        /\ cash[call[i].agent] = 20 * current_price * CashScale
        /\ position[call[i].agent] > 0
        /\ current_price > MinPrice
        /\ call[i].intent = Hold

\* The transactions of the tick under way, once matching has logged them:
\* what the market's log holds beyond the counts of the ticks recorded
TickTransactions ==
    SubSeq(stats.transactions,
           1 + SeqSum([i \in 1..Len(data) |-> data[i].transactions]),
           Len(stats.transactions))

\* C34: when a tick has at least one transaction, the new price before the
\* final noise term is 0.6 * VWAP + 0.4 * previous price, the VWAP being
\* the sum of quantity * execution price over the sum of quantity of that
\* tick's transactions only; so it lies between the previous price and the
\* VWAP.  (tq and tv2 are the two sums, the second doubled; pre-noise price
\* = num / den; the noise takes it to a grid price and the floor applies.)
C34_BlendOfVWAP ==
    [][(pc = "price" /\ transactions # <<>>) =>
        LET txs == TickTransactions
            tq == SeqSum([i \in 1..Len(txs) |-> txs[i][3]])
            tv2 == SeqSum([i \in 1..Len(txs) |-> txs[i][3] * txs[i][4]])
            num == 6 * tv2 + 8 * current_price * tq
            den == 20 * tq
        IN /\ txs = transactions
           /\ \E n \in NoiseSet :
                 current_price' = Max(MinPrice, num \div den + n)
           /\ \/ current_price * den <= num /\ num * 2 * tq <= tv2 * den
              \/ current_price * den >= num /\ num * 2 * tq >= tv2 * den]_vars

\* The second tick's price has been formed from that tick's trade, the log
\* holding the first tick's trades as well, and differs from the price before
C34_Witness ==
    /\ pc = "wealth"
    /\ step = 1
    /\ transactions # <<>>
    /\ Len(stats.transactions) > Len(transactions)
    /\ stats.transactions[1][4] # transactions[1][4]
    /\ current_price > MinPrice
    /\ current_price # price_history[Len(price_history) - 1]

\* Whether history h is still the prefix it was, with at most one entry more
Extended(h, hNext) ==
    \/ hNext = h
    \/ Len(hNext) = Len(h) + 1 /\ SubSeq(hNext, 1, Len(h)) = h

\* C35: after k ticks the price history, the fundamental-value history and
\* the trading-volume history each have exactly k + 1 entries, entries once
\* recorded are never changed or removed, and current_price and
\* fundamental_value are the last entries of their histories.
C35_HistoriesAppendOnly ==
    /\ [](pc \in {"run", "done"} =>
            /\ Len(price_history) = step + 1
            /\ Len(fundamental_history) = step + 1
            /\ Len(trading_volume) = step + 1)
    /\ [](/\ current_price = Last(price_history)
          /\ fundamental_value = Last(fundamental_history))
    /\ [][/\ Extended(price_history, price_history')
          /\ Extended(fundamental_history, fundamental_history')
          /\ Extended(trading_volume, trading_volume')]_vars

\* Two ticks are over: three different prices and three different values
\* are on the histories, and a tick with a trade is on the volume history
C35_Witness ==
    /\ pc = "done"
    /\ step = MaxTicks
    /\ price_history[1] # price_history[2] /\ price_history[2] # price_history[3]
    /\ fundamental_history[1] # fundamental_history[2]
    /\ fundamental_history[2] # fundamental_history[3]
    /\ trading_volume[3] > 0

\* The transactions the market's log holds for recorded tick i
TransactionsOfTick(i) ==
    LET before == SeqSum([j \in 1..(i - 1) |-> data[j].transactions])
    IN SubSeq(stats.transactions, before + 1, before + data[i].transactions)

\* C36: the cumulative volume equals the sum of the per-tick volume history
\* and the sum of the quantities over the full transaction log, and each
\* tick summary's volume and transaction count are the sum of the quantities
\* and the number of the transactions recorded in that tick.
C36_VolumeAccounts ==
    /\ stats.total_volume = SeqSum(trading_volume)
    /\ stats.total_volume =
          SeqSum([i \in 1..Len(stats.transactions) |-> stats.transactions[i][3]])
    /\ pc \in {"run", "done"} =>
          /\ SeqSum([i \in 1..Len(data) |-> data[i].transactions]) = Len(stats.transactions)
          /\ \A i \in 1..Len(data) :
                LET txs == TransactionsOfTick(i)
                IN /\ data[i].volume = SeqSum([j \in 1..Len(txs) |-> txs[j][3]])
                   /\ data[i].volume = trading_volume[i + 1]
          /\ step >= 1 =>
                /\ summary.volume = data[Len(data)].volume
                /\ summary.num_transactions = data[Len(data)].transactions

\* Two ticks with a transaction each are over, more than one share having
\* changed hands in the first
C36_Witness ==
    /\ pc = "done"
    /\ Len(data) = 2
    /\ data[1].transactions >= 1 /\ data[1].volume >= 2
    /\ data[2].transactions >= 1
    /\ stats.total_volume = data[1].volume + data[2].volume

\* Order o on a list of the matcher comes from the intent its agent returned
\* in this tick: same action and price, and no more than its quantity
FromThisTick(o, action) ==
    LET intent == intents[Registration(o[1])]
    IN intent[1] = action /\ intent[3] = o[3] /\ 1 <= o[2] /\ o[2] <= intent[2]

\* C37: orders left unmatched or dropped in one tick take no part in the
\* matching of a later tick: the buy and sell lists matched in a tick hold
\* only the intents the agents produced in that tick.
C37_OrdersNotPersisted ==
    /\ [](pc \in {"match", "loop"} =>
            /\ Len(intents) = Len(agents)
            /\ buy_orders = OrdersAmong(Len(agents), "buy")
            /\ sell_orders = OrdersAmong(Len(agents), "sell"))
    /\ [](pc = "loop" =>
            /\ \A k \in 1..Len(m_buy_orders) : FromThisTick(m_buy_orders[k], "buy")
            /\ \A k \in 1..Len(m_sell_orders) : FromThisTick(m_sell_orders[k], "sell"))
    /\ [][pc = "match" => /\ Len(m_buy_orders') = Len(buy_orders)
                          /\ Len(m_sell_orders') = Len(sell_orders)]_vars

\* The second tick's matching begins with orders of both sides; in the first
\* a sell executed against a failing buy and stayed on the list, and its
\* owner has not returned a sell in this tick
C37_Witness ==
    /\ pc = "loop"
    /\ step = 1
    /\ iterations = 0
    /\ m_buy_orders # <<>> /\ m_sell_orders # <<>>
    /\ data[1].transactions = 0
    /\ \E a \in Agents : HasTrade(a, "sell") /\ intents[a][1] # "sell"

\* C38: every trade the matcher executes charges the buyer and the seller
\* the transaction-cost rate of the caller's configuration
\* (TRANSACTION_COST), the same rate on both sides: when a transaction is
\* recorded, the buyer's cash has fallen by quantity * price * (1 + rate) and
\* the seller's has risen by quantity * price * (1 - rate) for that rate.
C38_ConfiguredRateCharged ==
    [][Len(transactions') = Len(transactions) + 1
       => LET t == transactions'[Len(transactions')]
          IN /\ cash'[t[1]] = cash[t[1]] - TotalCost(t[3], t[4], ConfigCostRate)
             /\ cash'[t[2]] = cash[t[2]] + NetProceeds(t[3], t[4], ConfigCostRate)]_vars

\* The cash of all agents together
TotalCash(c) == SumOver(c, Agents)

\* C39: during matching the total cash of the agents never increases: a
\* recorded transaction of quantity q at price p lowers it by exactly
\* 2 * cost_rate * q * p (the buyer pays q * p * (1 + cost_rate), the seller
\* receives q * p * (1 - cost_rate)), and nothing else changes it.
C39_TotalCashFallsByCosts ==
    [][pc = "loop"
       => /\ TotalCash(cash') <= TotalCash(cash)
          /\ IF Len(transactions') = Len(transactions) + 1
               THEN LET t == transactions'[Len(transactions')]
                    IN TotalCash(cash') =
                          TotalCash(cash) - 2 * DefaultCostRate * t[3] * t[4]
               ELSE TotalCash(cash') = TotalCash(cash)]_vars

=============================================================================
